---- MODULE Spec2Model ----
(***************************************************************************)
(* Model of the RTF conversion handler of allmark                          *)
(* (modules/web/server/handler/rtf.go): suffix stripping and route         *)
(* parsing, the configuration gates, model lookup, rendering, temporary    *)
(* files, the external converter and the streaming of its output.          *)
(*                                                                         *)
(* Strings are sequences of one-character strings, so that suffixes,       *)
(* segments and concatenation are computed as the code computes them.      *)
(***************************************************************************)
EXTENDS Integers, Sequences, FiniteSets, TLC

VARIABLES
    config,      \* handler.config.Conversion.Rtf: [Enabled, Tool]
    req,         \* one record per request-handling unit (goroutine)
    files,       \* the file system: path -> content, for the files that exist
    nextTemp,    \* state of the temporary-name allocator
    started,     \* number of requests accepted so far
    fnModel,     \* argument of getRichTextFilename (filename specification)
    fnName,      \* its result
    stripPath,   \* the path p a request path is built from (strip specification)
    stripOut,    \* the outcome of stripping p plus a suffix
    exec         \* one call of execute(directory, commandText) and its child

vars == <<config, req, files, nextTemp, started, fnModel, fnName, stripPath, stripOut,
          exec>>

handlerVars == <<config, req, files, nextTemp, started>>
pureVars == <<fnModel, fnName, stripPath, stripOut, exec>>

(***************************************************************************)
(* Bounds                                                                  *)
(***************************************************************************)
MaxLen == 3          \* longest path / route text enumerated
MaxRequests == 2     \* requests accepted in one run
MaxLevel == 1        \* deepest hierarchy level enumerated for a model
MaxOutput == 2       \* bytes a child process writes to one of its output streams

(***************************************************************************)
(* Strings                                                                 *)
(***************************************************************************)
Chars == {"a", "f", ".", "/", "?"}

RECURSIVE StringsOfLen(_)
StringsOfLen(n) ==
    IF n = 0 THEN {<<>>}
    ELSE {Append(s, c) : s \in StringsOfLen(n - 1), c \in Chars}

StringsUpTo(n) == UNION {StringsOfLen(k) : k \in 0..n}

HasSuffix(s, suffix) ==
    /\ Len(s) >= Len(suffix)
    /\ SubSeq(s, Len(s) - Len(suffix) + 1, Len(s)) = suffix

\* strings.TrimSuffix: removes one trailing occurrence of suffix, if present
TrimSuffix(s, suffix) ==
    IF HasSuffix(s, suffix) THEN SubSeq(s, 1, Len(s) - Len(suffix)) ELSE s

\* strings.TrimRight: removes every trailing character that is in the cutset
RECURSIVE TrimRight(_, _)
TrimRight(s, cutset) ==
    IF Len(s) > 0 /\ s[Len(s)] \in cutset
    THEN TrimRight(SubSeq(s, 1, Len(s) - 1), cutset)
    ELSE s

RECURSIVE TrimLeft(_, _)
TrimLeft(s, cutset) ==
    IF Len(s) > 0 /\ s[1] \in cutset
    THEN TrimLeft(SubSeq(s, 2, Len(s)), cutset)
    ELSE s

RtfToken == <<"r", "t", "f">>
DotToken == <<".">>
RtfExtension == <<".", "r", "t", "f">>
DocumentText == <<"d", "o", "c", "u", "m", "e", "n", "t">>

(***************************************************************************)
(* Routes (package allmark.io/modules/common/route)                        *)
(***************************************************************************)
IllegalChars == {"?"}

RouteError == [ok |-> FALSE, value |-> <<>>]

\* canonical form of a path: no leading or trailing separators
normalize(path) == TrimRight(TrimLeft(path, {"/"}), {"/"})

\* route.NewFromRequest: a route, or an error for a malformed path
NewFromRequest(path) ==
    IF \E i \in 1..Len(path) : path[i] \in IllegalChars
    THEN RouteError
    ELSE [ok |-> TRUE, value |-> normalize(path)]

RECURSIVE LastSegment(_)
LastSegment(s) ==
    IF Len(s) = 0 \/ s[Len(s)] = "/" THEN <<>>
    ELSE Append(LastSegment(SubSeq(s, 1, Len(s) - 1)), s[Len(s)])

\* Route.LastComponentName: the text after the last separator
LastComponentName(route) == LastSegment(route.value)

\* Route.Value: the canonical string form
Value(route) == route.value

(***************************************************************************)
(* Suffix stripping (rtf.go, lines 50-52)                                  *)
(***************************************************************************)
StripRtfSuffix_Cutset(path) == TrimSuffix(TrimRight(path, {"r", "t", "f"}), DotToken)

StripRtfSuffix(path) == TrimSuffix(TrimSuffix(path, RtfToken), DotToken)

(***************************************************************************)
(* Filename derivation (rtf.go, lines 172-193)                             *)
(***************************************************************************)
fallback == DocumentText

getRichTextFilename(model) ==
    LET originalRoute == NewFromRequest(model.Route)
    IN  IF ~originalRoute.ok THEN fallback
        ELSE LET fileNameRoute == NewFromRequest(LastComponentName(originalRoute))
             IN  IF ~fileNameRoute.ok THEN fallback
                 ELSE IF model.Level = 0
                      THEN LET titleRoute == NewFromRequest(model.Title)
                           IN  IF ~titleRoute.ok THEN fallback
                               ELSE Value(titleRoute) \o RtfExtension
                      ELSE Value(fileNameRoute) \o RtfExtension

(***************************************************************************)
(* Collaborators of the handler                                            *)
(***************************************************************************)
\* the request-handling units (goroutines) that run the handler concurrently
Units == {"unit1", "unit2"}

EmptyText == <<>>
PandocTool == <<"p", "a", "n", "d", "o", "c">>

\* config.Conversion.Rtf: the enabled flag and the tool path
Configs == [Enabled : BOOLEAN, Tool : {EmptyText, PandocTool}]

\* the values of the "path" request variable that are enumerated
RequestPaths == {<<"a", ".", "r", "t", "f">>, <<"?", "r", "t", "f">>}

\* viewmodel.ConversionModel: route, hierarchy level and title
NoModel == [Route |-> EmptyText, Level |-> 0, Title |-> EmptyText]
ItemModel == [Route |-> <<"a", "/", "f">>, Level |-> 1, Title |-> <<"a">>]
RootModel == [Route |-> EmptyText, Level |-> 0, Title |-> <<"?">>]
KnownModels == {ItemModel, RootModel}

\* outcome of templateProvider.GetSubTemplate and renderTemplate
RenderOutcomes == {"ok", "no_template", "render_error"}

\* the text renderTemplate produces for a model
renderTemplate(model) == <<"<">> \o model.Title

\* what the converter writes for an input text (pandoc -s in -o out)
Convert(content) == <<"{">> \o content

(***************************************************************************)
(* Temporary files (package allmark.io/modules/common/util/fsutil)         *)
(***************************************************************************)
NoPath == [prefix |-> "", id |-> 0, ext |-> ""]

\* fsutil.GetTempFileName: a name no earlier call has returned
GetTempFileName(prefix, counter) == [prefix |-> prefix, id |-> counter, ext |-> ""]

WithExtension_Fixed(name, ext) == [name EXCEPT !.id = 0, !.ext = ext]

\* GetTempFileName(...) + ".html" / ".rtf": the allocated name plus an extension
WithExtension(name, ext) == [name EXCEPT !.ext = ext]

Exists(fs, path) == path \in DOMAIN fs

\* fsutil.OpenFile: the file exists afterwards (created empty when missing)
OpenFile(fs, path) ==
    IF Exists(fs, path) THEN fs
    ELSE [p \in DOMAIN fs \cup {path} |-> IF p = path THEN EmptyText ELSE fs[p]]

WriteFile(fs, path, content) ==
    [p \in DOMAIN fs \cup {path} |-> IF p = path THEN content ELSE fs[p]]

ReadFile(fs, path) == IF Exists(fs, path) THEN fs[path] ELSE EmptyText

(***************************************************************************)
(* Request state                                                           *)
(***************************************************************************)
NoHeader == [set |-> FALSE, filename |-> EmptyText]

IdleRequest ==
    [pc |-> "idle",
     path |-> EmptyText,           \* vars["path"]
     requestRoute |-> RouteError,
     found |-> FALSE,
     model |-> NoModel,
     rendered |-> "none",          \* convertToHtml: none, ok, failed
     html |-> EmptyText,
     htmlFilePath |-> NoPath,
     htmlFile |-> "none",          \* handle: none, open, closed
     targetFile |-> NoPath,
     runErr |-> "none",            \* result of cmd.Run: none, nil, launch, exit
     proc |-> "none",              \* converter process: none, running, exited
     rtfPath |-> NoPath,           \* the path rtfFile was opened on
     rtfFile |-> "none",           \* handle: none, open, closed
     bodyClosed |-> FALSE,         \* r.Body
     defers |-> <<>>,
     disposition |-> NoHeader,     \* Content-Disposition response header
     body |-> EmptyText,           \* bytes the handler wrote to w
     copied |-> "none",            \* io.Copy: none, full, partial
     events |-> <<>>]

Range(seq) == {seq[i] : i \in 1..Len(seq)}

Count(seq, tag) == Cardinality({i \in 1..Len(seq) : seq[i] = tag})

Log(r, tag) == [r EXCEPT !.events = Append(@, tag)]

Returned_LeakHtml(r) ==
    [r EXCEPT !.pc = "done",
              !.bodyClosed = @ \/ "body" \in Range(r.defers),
              !.rtfFile = IF "rtfFile" \in Range(r.defers) THEN "closed" ELSE @,
              !.defers = <<>>]

\* return: the deferred Close calls run (lines 62, 110, 140)
Returned(r) ==
    [r EXCEPT !.pc = "done",
              !.bodyClosed = @ \/ "body" \in Range(r.defers),
              !.htmlFile = IF "htmlFile" \in Range(r.defers) THEN "closed" ELSE @,
              !.rtfFile = IF "rtfFile" \in Range(r.defers) THEN "closed" ELSE @,
              !.defers = <<>>]

Defer(r, what) == [r EXCEPT !.defers = Append(@, what)]

\* error404Handler := handler.error404Handler.Func(); error404Handler(w, r)
Fallback404(r) == Log(r, "fallback404")

(***************************************************************************)
(* The handler, Rtf.Func (rtf.go, lines 39-147), one action per step       *)
(***************************************************************************)
ConversionDisabled_Never(cfg) == FALSE

\* line 65: !handler.config.Conversion.Rtf.Enabled
ConversionDisabled(cfg) == ~cfg.Enabled

converterToolIsConfigured_Always(cfg) == TRUE

\* line 77: len(handler.config.Conversion.Rtf.Tool) > 0
converterToolIsConfigured(cfg) == Len(cfg.Tool) > 0

ModelMissing_Never(found) == FALSE

\* line 92: !found
ModelMissing(found) == ~found

RunFailed_Never(err) == FALSE

\* line 128: err := cmd.Run(); err != nil
RunFailed(err) == err # "nil"

rtfSourcePath_Html(r) == r.htmlFilePath

\* line 134: the path handed to fsutil.OpenFile for the result
rtfSourcePath(r) == r.targetFile

\* line 142: fmt.Sprintf(`attachment; filename="%s"`, getRichTextFilename(model))
ContentDisposition(model) == [set |-> TRUE, filename |-> getRichTextFilename(model)]

convertToHtml_KeepsBuffer(model, outcome) == renderTemplate(model)

\* convertToHtml (lines 150-170): the rendered text, or "" after a logged error
convertToHtml(model, outcome) ==
    IF outcome = "ok" THEN renderTemplate(model) ELSE EmptyText

RouteParseFailed_Never(route) == FALSE

\* line 56: requestRoute, err := route.NewFromRequest(path); err != nil
RouteParseFailed(route) == ~route.ok

\* lines 39-62: headers, suffix stripping, route parsing, defer r.Body.Close()
Begin(u) ==
    /\ req[u].pc \in {"idle", "done"}
    /\ started < MaxRequests
    /\ started' = started + 1
    /\ \E path \in RequestPaths :
        LET r0 == [IdleRequest EXCEPT !.path = path, !.events = <<"headers">>]
            requestRoute == NewFromRequest(StripRtfSuffix(path))
        IN  req' = [req EXCEPT ![u] =
                IF RouteParseFailed(requestRoute)
                THEN Returned(Log(r0, "log_error"))
                ELSE [Defer(r0, "body") EXCEPT !.requestRoute = requestRoute,
                                               !.pc = "gate"]]
    /\ UNCHANGED <<config, files, nextTemp, pureVars>>

GateResult_NoReturn(r, cfg) ==
    LET r1 == IF ConversionDisabled(cfg) THEN Fallback404(Log(r, "log_warn")) ELSE r
    IN  IF ~converterToolIsConfigured(cfg)
        THEN Returned(Fallback404(Log(r1, "log_warn")))
        ELSE [r1 EXCEPT !.pc = "lookup"]

\* lines 64-87: each gate warns, shows the 404 page and returns
GateResult(r, cfg) ==
    IF ConversionDisabled(cfg)
    THEN Returned(Fallback404(Log(r, "log_warn")))
    ELSE IF ~converterToolIsConfigured(cfg)
         THEN Returned(Fallback404(Log(r, "log_warn")))
         ELSE [r EXCEPT !.pc = "lookup"]

\* lines 64-87: the two configuration gates
Gate(u) ==
    /\ req[u].pc = "gate"
    /\ req' = [req EXCEPT ![u] = GateResult(@, config)]
    /\ UNCHANGED <<config, files, nextTemp, started, pureVars>>

\* lines 89-98: converterModelOrchestrator.GetConversionModel(hostname, route)
Lookup(u) ==
    /\ req[u].pc = "lookup"
    /\ \E found \in BOOLEAN, m \in KnownModels :
        LET r1 == [Log(req[u], "lookup") EXCEPT
                       !.found = found,
                       !.model = IF found THEN m ELSE NoModel]
        IN  req' = [req EXCEPT ![u] =
                IF ModelMissing(found)
                THEN Returned(Fallback404(r1))
                ELSE [r1 EXCEPT !.pc = "render"]]
    /\ UNCHANGED <<config, files, nextTemp, started, pureVars>>

\* line 100: html := handler.convertToHtml(hostname, model)
Render(u) ==
    /\ req[u].pc = "render"
    /\ \E outcome \in RenderOutcomes :
        LET r1 == IF outcome = "ok" THEN req[u] ELSE Log(req[u], "log_error")
        IN  req' = [req EXCEPT ![u] =
                [r1 EXCEPT !.rendered = IF outcome = "ok" THEN "ok" ELSE "failed",
                           !.html = convertToHtml(r1.model, outcome),
                           !.pc = "writeHtml"]]
    /\ UNCHANGED <<config, files, nextTemp, started, pureVars>>

\* lines 102-111: allocate the intermediate file name, open the file,
\* defer htmlFile.Close(), htmlFile.WriteString(html) with its result ignored
WriteHtml(u) ==
    /\ req[u].pc = "writeHtml"
    /\ nextTemp' = nextTemp + 1
    /\ LET htmlFilePath ==
               WithExtension(GetTempFileName("html-source", nextTemp), ".html")
           r1 == [Log(req[u], "alloc_name") EXCEPT !.htmlFilePath = htmlFilePath]
       IN  \E opened \in BOOLEAN, written \in BOOLEAN :
            IF ~opened
            THEN /\ req' = [req EXCEPT ![u] = Returned(Log(r1, "log_error"))]
                 /\ UNCHANGED files
            ELSE /\ req' = [req EXCEPT ![u] =
                        [Log(Defer(Log(r1, "open_html"), "htmlFile"),
                             IF written THEN "write_html" ELSE "write_html_failed")
                         EXCEPT !.htmlFile = "open", !.pc = "run"]]
                 /\ files' =
                        IF written
                        THEN WriteFile(OpenFile(files, htmlFilePath), htmlFilePath,
                                 ReadFile(files, htmlFilePath) \o req[u].html)
                        ELSE OpenFile(files, htmlFilePath)
    /\ UNCHANGED <<config, started, pureVars>>

\* lines 128-131: what the handler does with the result of cmd.Run
AfterRun(r, err) ==
    IF RunFailed(err)
    THEN Returned(Log([r EXCEPT !.runErr = err], "log_error"))
    ELSE [r EXCEPT !.runErr = err, !.pc = "openRtf"]

WaitForExit_Detached(r) == [r EXCEPT !.proc = "running", !.pc = "openRtf"]

\* line 128: cmd.Run blocks the handler until the started process has exited
WaitForExit(r) == [r EXCEPT !.proc = "running", !.pc = "wait"]

\* lines 113-128: allocate the output file name, build the arguments,
\* cmd.Run starts the converter, or fails to
RunStart(u) ==
    /\ req[u].pc = "run"
    /\ nextTemp' = nextTemp + 1
    /\ LET targetFile ==
               WithExtension(GetTempFileName("rtf-target", nextTemp), ".rtf")
           r1 == [Log(req[u], "alloc_name") EXCEPT !.targetFile = targetFile]
       IN  \E launched \in BOOLEAN :
            req' = [req EXCEPT ![u] =
                IF launched
                THEN WaitForExit(Log(r1, "launch"))
                ELSE AfterRun(Log(r1, "launch_failed"), "launch")]
    /\ UNCHANGED <<config, files, started, pureVars>>

\* line 128: the converter reads its input, writes its output and exits;
\* cmd.Run returns its exit status
ConverterExit(u) ==
    /\ req[u].pc = "wait"
    /\ \E code \in {0, 1} :
        /\ files' = IF code = 0
                    THEN WriteFile(files, req[u].targetFile,
                             Convert(ReadFile(files, req[u].htmlFilePath)))
                    ELSE files
        /\ req' = [req EXCEPT ![u] =
                AfterRun([Log(@, "converter_exit") EXCEPT !.proc = "exited"],
                         IF code = 0 THEN "nil" ELSE "exit")]
    /\ UNCHANGED <<config, nextTemp, started, pureVars>>

\* lines 133-140: open the converter's output, defer rtfFile.Close()
OpenRtf(u) ==
    /\ req[u].pc = "openRtf"
    /\ \E ok \in BOOLEAN :
        IF ~ok
        THEN /\ req' = [req EXCEPT ![u] = Returned(Log(@, "log_error"))]
             /\ UNCHANGED files
        ELSE /\ req' = [req EXCEPT ![u] =
                    [Defer(Log(@, "open_rtf"), "rtfFile") EXCEPT
                        !.rtfFile = "open",
                        !.rtfPath = rtfSourcePath(req[u]),
                        !.pc = "stream"]]
             /\ files' = OpenFile(files, rtfSourcePath(req[u]))
    /\ UNCHANGED <<config, nextTemp, started, pureVars>>

\* lines 142-146: Content-Disposition, io.Copy(w, rtfFile), return
Stream(u) ==
    /\ req[u].pc = "stream"
    /\ LET content == ReadFile(files, req[u].rtfPath)
       IN  \E n \in 0..Len(content) :
            req' = [req EXCEPT ![u] =
                Returned([Log(Log(@, "set_disposition"), "write_body") EXCEPT
                    !.disposition = ContentDisposition(req[u].model),
                    !.body = SubSeq(content, 1, n),
                    !.copied = IF n = Len(content) THEN "full" ELSE "partial"])]
    /\ UNCHANGED <<config, files, nextTemp, started, pureVars>>

(***************************************************************************)
(* The process-execution primitive (rtf.go, lines 195-254)                 *)
(***************************************************************************)
Streams == {"stdout", "stderr"}

\* strings.Split(s, sep): the texts between the separators
RECURSIVE Split(_, _)
Split(s, sep) ==
    IF \A i \in 1..Len(s) : s[i] # sep THEN <<s>>
    ELSE LET k == CHOOSE i \in 1..Len(s) :
                      s[i] = sep /\ \A j \in 1..(i - 1) : s[j] # sep
         IN  <<SubSeq(s, 1, k - 1)>> \o Split(SubSeq(s, k + 1, Len(s)), sep)

\* the nil *exec.Cmd
NilCmd == [nil |-> TRUE, name |-> EmptyText, arguments |-> <<>>]

\* getCmd (lines 209-229): nil for the empty text, else the command built
\* from the first component and the remaining ones
getCmd(commandText) ==
    IF commandText = EmptyText THEN NilCmd
    ELSE LET components == Split(commandText, " ")
         IN  [nil |-> FALSE,
              name |-> Head(components),
              arguments |-> Tail(components)]

IdleExec ==
    [pc |-> "idle",
     commandText |-> EmptyText,
     command |-> NilCmd,
     child |-> "none",
     launches |-> 0,
     result |-> "none",
     readEnd |-> [s \in Streams |-> "none"],
     copier |-> [s \in Streams |-> "none"],
     written |-> [s \in Streams |-> 0],
     buffered |-> [s \in Streams |-> 0],
     forwarded |-> [s \in Streams |-> 0]]

PipeOutcomes == {"ok", "stdout_failed", "stderr_failed"}

\* redirectCommandIO (lines 237-254): the two pipes, then one copy task per
\* pipe; an error of StdoutPipe or StderrPipe returns before the tasks start
redirectCommandIO(x, pipes) ==
    IF pipes = "stdout_failed" THEN x
    ELSE IF pipes = "stderr_failed"
         THEN [x EXCEPT !.readEnd["stdout"] = "open"]
         ELSE [x EXCEPT !.readEnd = [s \in Streams |-> "open"],
                        !.copier = [s \in Streams |-> "running"]]

\* Cmd.Start / Cmd.Wait closing the parent's pipe descriptors
closeDescriptors(x) ==
    [x EXCEPT !.readEnd = [s \in Streams |-> IF @[s] = "open" THEN "closed" ELSE @[s]]]

(***************************************************************************)
(* Specification of the handler                                            *)
(***************************************************************************)
NoName == [derived |-> FALSE, name |-> EmptyText]
NoStrip == [form |-> "none", stripped |-> EmptyText, route |-> RouteError]

EmptyFiles == [p \in {} |-> EmptyText]

Init ==
    /\ config \in Configs
    /\ req = [u \in Units |-> IdleRequest]
    /\ files = EmptyFiles
    /\ nextTemp = 1
    /\ started = 0
    /\ fnModel = NoModel
    /\ fnName = NoName
    /\ stripPath = EmptyText
    /\ stripOut = NoStrip
    /\ exec = IdleExec

Next ==
    \E u \in Units :
        \/ Begin(u)
        \/ Gate(u)
        \/ Lookup(u)
        \/ Render(u)
        \/ WriteHtml(u)
        \/ RunStart(u)
        \/ ConverterExit(u)
        \/ OpenRtf(u)
        \/ Stream(u)

Spec == Init /\ [][Next]_vars

(***************************************************************************)
(* Specification of getRichTextFilename alone: a model is drawn, the       *)
(* function is applied to it                                               *)
(***************************************************************************)
Titles == StringsUpTo(1) \cup {<<"/", "a">>, <<"a", "f">>}

FilenameModels == [Route : StringsUpTo(MaxLen), Level : 0..MaxLevel, Title : Titles]

InitFilename ==
    /\ config = [Enabled |-> TRUE, Tool |-> PandocTool]
    /\ req = [u \in Units |-> IdleRequest]
    /\ files = EmptyFiles
    /\ nextTemp = 1
    /\ started = 0
    /\ fnModel \in FilenameModels
    /\ fnName = NoName
    /\ stripPath = EmptyText
    /\ stripOut = NoStrip
    /\ exec = IdleExec

DeriveFilename ==
    /\ ~fnName.derived
    /\ fnName' = [derived |-> TRUE, name |-> getRichTextFilename(fnModel)]
    /\ UNCHANGED <<handlerVars, fnModel, stripPath, stripOut, exec>>

NextFilename == DeriveFilename

SpecFilename == InitFilename /\ [][NextFilename]_vars

(***************************************************************************)
(* Specification of the suffix stripping alone: a path p is drawn, the     *)
(* request path is p plus "rtf" or p plus ".rtf", and the handler's        *)
(* stripping and route parsing are applied to it                           *)
(***************************************************************************)
SuffixOf(form) == IF form = "bare" THEN RtfToken ELSE RtfExtension

InitStrip ==
    /\ config = [Enabled |-> TRUE, Tool |-> PandocTool]
    /\ req = [u \in Units |-> IdleRequest]
    /\ files = EmptyFiles
    /\ nextTemp = 1
    /\ started = 0
    /\ fnModel = NoModel
    /\ fnName = NoName
    /\ stripPath \in StringsUpTo(MaxLen)
    /\ stripOut = NoStrip
    /\ exec = IdleExec

StripRequest ==
    /\ stripOut.form = "none"
    /\ \E form \in {"bare", "dotted"} :
        LET stripped == StripRtfSuffix(stripPath \o SuffixOf(form))
        IN  stripOut' = [form |-> form,
                         stripped |-> stripped,
                         route |-> NewFromRequest(stripped)]
    /\ UNCHANGED <<handlerVars, fnModel, fnName, stripPath, exec>>

NextStrip == StripRequest

SpecStrip == InitStrip /\ [][NextStrip]_vars

(***************************************************************************)
(* Specification of execute alone: one call with a drawn command text, the *)
(* child process, and the two copy tasks started by redirectCommandIO      *)
(***************************************************************************)
CommandTexts == {EmptyText, <<" ">>, <<"p">>, <<"p", " ", "a">>}

InitExec ==
    /\ config = [Enabled |-> TRUE, Tool |-> PandocTool]
    /\ req = [u \in Units |-> IdleRequest]
    /\ files = EmptyFiles
    /\ nextTemp = 1
    /\ started = 0
    /\ fnModel = NoModel
    /\ fnName = NoName
    /\ stripPath = EmptyText
    /\ stripOut = NoStrip
    /\ exec = IdleExec

execFrame == <<handlerVars, fnModel, fnName, stripPath, stripOut>>

\* line 198: command := getCmd(directory, commandText), which redirects the
\* command's output (line 232) when it has built a command
ExecuteCall ==
    /\ exec.pc = "idle"
    /\ \E commandText \in CommandTexts, pipes \in PipeOutcomes :
        LET command == getCmd(commandText)
            called == [exec EXCEPT !.pc = "start",
                                   !.commandText = commandText,
                                   !.command = command]
        IN  exec' = IF command.nil THEN called
                    ELSE redirectCommandIO(called, pipes)
    /\ UNCHANGED execFrame

\* lines 201-203: command.Start(); on a nil command the method dereferences
\* nil and the program panics; a start error is returned
StartCommand ==
    /\ exec.pc = "start"
    /\ \E launched \in BOOLEAN :
        exec' = IF exec.command.nil
                THEN [exec EXCEPT !.pc = "crashed"]
                ELSE IF exec.command.name = EmptyText \/ ~launched
                     THEN closeDescriptors([exec EXCEPT !.pc = "returned",
                                                        !.result = "start_error"])
                     ELSE [exec EXCEPT !.pc = "wait",
                                       !.child = "running",
                                       !.launches = @ + 1]
    /\ UNCHANGED execFrame

\* the child writes one byte to a stream that is a pipe
ChildWrite(s) ==
    /\ exec.child = "running"
    /\ exec.readEnd[s] # "none"
    /\ exec.written[s] < MaxOutput
    /\ exec' = [exec EXCEPT !.written[s] = @ + 1, !.buffered[s] = @ + 1]
    /\ UNCHANGED execFrame

\* the child terminates; its ends of the pipes are closed
ChildExit ==
    /\ exec.child = "running"
    /\ exec' = [exec EXCEPT !.child = "exited"]
    /\ UNCHANGED execFrame

\* lines 248-249, io.Copy: read what the pipe holds, write it to the parent
CopyStep(s) ==
    /\ exec.copier[s] = "running"
    /\ exec.readEnd[s] = "open"
    /\ exec.buffered[s] > 0
    /\ exec' = [exec EXCEPT !.forwarded[s] = @ + exec.buffered[s],
                            !.buffered[s] = 0]
    /\ UNCHANGED execFrame

\* lines 248-249, io.Copy returns: at end of file (pipe empty, writers gone)
\* or on the read error of a closed read end
CopierEnd(s) ==
    /\ exec.copier[s] = "running"
    /\ \/ exec.readEnd[s] = "closed"
       \/ exec.child = "exited" /\ exec.buffered[s] = 0
    /\ exec' = [exec EXCEPT !.copier[s] = "finished"]
    /\ UNCHANGED execFrame

\* line 206: command.Wait() returns once the child has exited, after closing
\* the read ends of the pipes; the copy tasks are not waited for
WaitCommand ==
    /\ exec.pc = "wait"
    /\ exec.child = "exited"
    /\ exec' = closeDescriptors([exec EXCEPT !.pc = "returned", !.result = "exited"])
    /\ UNCHANGED execFrame

NextExec ==
    \/ ExecuteCall
    \/ StartCommand
    \/ ChildExit
    \/ WaitCommand
    \/ \E s \in Streams :
        \/ ChildWrite(s)
        \/ CopyStep(s)
        \/ CopierEnd(s)

SpecExec == InitExec /\ [][NextExec]_vars

(***************************************************************************)
(* Properties of the handler                                               *)
(***************************************************************************)
Done(r) == r.pc = "done"
InFlight(r) == r.pc \notin {"idle", "done"}

Fallbacks(r) == Count(r.events, "fallback404")
Lookups(r) == Count(r.events, "lookup")
Allocations(r) == Count(r.events, "alloc_name")
Launches(r) == Count(r.events, "launch")
LastEvent(r) == r.events[Len(r.events)]

\* nothing past the configuration gate happened for the request
NothingPastGate(r) ==
    /\ Lookups(r) = 0
    /\ Allocations(r) = 0
    /\ r.htmlFilePath = NoPath /\ r.targetFile = NoPath
    /\ r.htmlFile = "none" /\ r.rtfFile = "none"
    /\ Launches(r) = 0 /\ r.proc = "none" /\ r.runErr = "none"
    /\ r.body = EmptyText /\ r.copied = "none"
    /\ ~r.disposition.set

\* every step before the streaming succeeded
EveryStepSucceeded(r) ==
    /\ r.requestRoute.ok
    /\ config.Enabled /\ Len(config.Tool) > 0
    /\ r.found
    /\ r.rendered = "ok"
    /\ r.htmlFile # "none"
    /\ r.proc = "exited" /\ r.runErr = "nil"
    /\ r.rtfFile # "none"

\* C1: body bytes are written to the client only if the route parsed, the
\* conversion was enabled and a tool configured, the model was found, the
\* template render succeeded, the intermediate file was opened, the converter
\* ran without error and the output file was opened.
C1_BodyOnlyAfterEveryStepSucceeded ==
    \A u \in Units : Len(req[u].body) > 0 => EveryStepSucceeded(req[u])

\* C2: with conversion disabled, a request with a valid route ends in exactly
\* one invocation of the 404 fallback, and no model lookup, temporary file,
\* converter process or body streaming happens for it.
C2_DisabledMeansFallbackOnly ==
    ~config.Enabled =>
        \A u \in Units :
            /\ NothingPastGate(req[u])
            /\ Done(req[u]) /\ req[u].requestRoute.ok => Fallbacks(req[u]) = 1

C2_Witness ==
    \E u \in Units :
        /\ ~config.Enabled /\ config.Tool = PandocTool
        /\ Done(req[u]) /\ req[u].requestRoute.ok
        /\ Fallbacks(req[u]) = 1

\* what a completed request shows to the outside
Observable(r) ==
    [fallbacks |-> Fallbacks(r), lookups |-> Lookups(r),
     allocations |-> Allocations(r), launches |-> Launches(r),
     body |-> r.body, disposition |-> r.disposition,
     paths |-> {r.htmlFilePath, r.targetFile}]

\* the outcome of a request when conversion is disabled: the fallback once for
\* a valid route, nothing at all for a malformed one
DisabledOutcome(validRoute) ==
    [fallbacks |-> IF validRoute THEN 1 ELSE 0, lookups |-> 0,
     allocations |-> 0, launches |-> 0,
     body |-> EmptyText, disposition |-> NoHeader,
     paths |-> {NoPath}]

\* C3: a request handled with conversion enabled and an empty tool path has
\* the same observable outcome as one handled with conversion disabled: the
\* fallback once for a valid route, a silent abort for a malformed one, no
\* lookup, no temporary artifact, no process and no body in either case.
C3_EmptyToolSameAsDisabled ==
    (~config.Enabled \/ config.Tool = EmptyText) =>
        \A u \in Units :
            Done(req[u]) =>
                Observable(req[u]) = DisabledOutcome(req[u].requestRoute.ok)

C3_Witness ==
    \E u \in Units :
        /\ config.Enabled /\ config.Tool = EmptyText
        /\ Done(req[u]) /\ req[u].requestRoute.ok
        /\ Fallbacks(req[u]) = 1

\* C4: when the orchestrator reports no model, the 404 fallback is invoked and
\* the handler returns; no temporary name was allocated, no temporary file
\* created or opened and no converter launched for that request.
C4_NoModelMeansFallbackAndNoTempFiles ==
    \A u \in Units :
        (Lookups(req[u]) > 0 /\ ~req[u].found) =>
            /\ Done(req[u])
            /\ Fallbacks(req[u]) = 1
            /\ Allocations(req[u]) = 0
            /\ req[u].htmlFilePath = NoPath /\ req[u].targetFile = NoPath
            /\ req[u].htmlFile = "none" /\ req[u].rtfFile = "none"
            /\ Launches(req[u]) = 0 /\ req[u].proc = "none"

C4_Witness ==
    \E u \in Units :
        /\ config.Enabled /\ config.Tool = PandocTool
        /\ Lookups(req[u]) = 1 /\ ~req[u].found
        /\ Done(req[u]) /\ Fallbacks(req[u]) = 1

\* C5: when the converter cannot be started or exits non-zero the request is
\* aborted: an error is logged, no body byte is written, no
\* Content-Disposition header is set, the output artifact is never opened and
\* the 404 fallback is not invoked.
C5_ConverterFailureAborts ==
    \A u \in Units :
        req[u].runErr \in {"launch", "exit"} =>
            /\ Done(req[u])
            /\ LastEvent(req[u]) = "log_error"
            /\ req[u].body = EmptyText /\ req[u].copied = "none"
            /\ ~req[u].disposition.set
            /\ req[u].rtfFile = "none" /\ req[u].rtfPath = NoPath
            /\ Fallbacks(req[u]) = 0

C5_Witness ==
    \E u \in Units, v \in Units :
        /\ req[u].runErr = "exit" /\ req[u].proc = "exited" /\ Done(req[u])
        /\ req[v].runErr = "launch" /\ req[v].proc = "none" /\ Done(req[v])

\* the artifact handles a request holds open
OpenHandles(r) ==
    {h \in {"htmlFile", "rtfFile"} :
        (h = "htmlFile" /\ r.htmlFile = "open") \/ (h = "rtfFile" /\ r.rtfFile = "open")}

\* C6: every artifact handle a request opened is closed when the handler has
\* returned, on every exit path; once all requests have completed no artifact
\* handle is open.
C6_HandlesClosedOnReturn ==
    \A u \in Units : ~InFlight(req[u]) => OpenHandles(req[u]) = {}

C6_Witness ==
    \E u \in Units, v \in Units :
        /\ Done(req[u]) /\ req[u].htmlFile = "closed" /\ req[u].rtfFile = "closed"
        /\ Done(req[v]) /\ req[v].htmlFile = "closed" /\ req[v].rtfFile = "none"
        /\ req[v].runErr = "exit"

\* a request succeeded: the handler streamed the output and io.Copy reached
\* the end of the file
Succeeded(r) == Done(r) /\ r.copied = "full"

WroteHtml(r) == Count(r.events, "write_html") = 1

\* C7: when a request succeeds, the body is the full content of the file at
\* the output path passed to the converter for that request, which is the
\* converter's output for the request's rendered markup when the markup was
\* written, and the Content-Disposition header names the file derived from
\* that request's model.
C7_BodyIsConverterOutput ==
    \A u \in Units :
        Succeeded(req[u]) =>
            /\ req[u].targetFile # NoPath
            /\ Exists(files, req[u].targetFile)
            /\ req[u].body = files[req[u].targetFile]
            /\ WroteHtml(req[u]) => req[u].body = Convert(req[u].html)
            /\ req[u].disposition.set
            /\ req[u].disposition.filename = getRichTextFilename(req[u].model)

C7_Witness ==
    \E u \in Units, v \in Units :
        /\ Succeeded(req[u]) /\ Succeeded(req[v])
        /\ req[u].model = ItemModel /\ req[v].model = RootModel
        /\ req[u].rendered = "ok" /\ WroteHtml(req[u])
        /\ req[v].rendered = "ok" /\ WroteHtml(req[v])
        /\ req[u].body = Convert(renderTemplate(ItemModel))
        /\ req[u].disposition.filename = <<"f", ".", "r", "t", "f">>
        /\ req[v].body = Convert(renderTemplate(RootModel))

\* the temporary paths a request holds
Paths(r) == {r.htmlFilePath, r.targetFile} \ {NoPath}

\* C10: no two live temporary artifacts share a path: the intermediate and
\* the output path of a request in flight differ from each other and from
\* every path of every other request in flight.
C10_LivePathsAreDistinct ==
    \A u \in Units :
        InFlight(req[u]) =>
            /\ req[u].targetFile # NoPath => req[u].htmlFilePath # req[u].targetFile
            /\ \A v \in Units \ {u} :
                InFlight(req[v]) => Paths(req[u]) \cap Paths(req[v]) = {}

C10_Witness ==
    \E u \in Units, v \in Units :
        /\ u # v
        /\ req[u].pc = "wait" /\ req[v].pc = "wait"
        /\ Cardinality(Paths(req[u]) \cup Paths(req[v])) = 4

(***************************************************************************)
(* Properties of getRichTextFilename                                       *)
(***************************************************************************)
\* the filename the derivation rule names for a model
ClaimedFilename(model) ==
    LET route == NewFromRequest(model.Route)
        segment == NewFromRequest(LastComponentName(route))
        title == NewFromRequest(model.Title)
        failed == \/ ~route.ok
                  \/ ~segment.ok
                  \/ (model.Level = 0 /\ ~title.ok)
    IN  IF failed THEN DocumentText \o RtfExtension
        ELSE IF model.Level # 0 THEN Value(segment) \o RtfExtension
        ELSE Value(title) \o RtfExtension

\* C8: the derived filename is the sanitized last route segment plus ".rtf"
\* at a non-zero level, the sanitized title plus ".rtf" at level 0, and
\* exactly "document.rtf" when parsing the route, the segment or (at level 0)
\* the title fails.
C8_FilenameAsDerivationRule ==
    fnName.derived => fnName.name = ClaimedFilename(fnModel)

(***************************************************************************)
(* Properties of the suffix stripping                                      *)
(***************************************************************************)
ValidPath(p) == NewFromRequest(p).ok

EndsWithDot(p) == HasSuffix(p, DotToken)

\* C9 as stated: for every valid path p, stripping p+"rtf" and p+".rtf"
\* yields a string that parses to the same route as p.
C9_StripYieldsRouteOfPath ==
    (stripOut.form # "none" /\ ValidPath(stripPath)) =>
        stripOut.route = NewFromRequest(stripPath)

\* C9, amended: for every valid path p, stripping p+".rtf" yields a string
\* that parses to the route of p; stripping p+"rtf" does so when p does not
\* end in "."; when p ends in ".", it yields the route of p without that
\* final ".".
C9_StripRemovesTokenAndOneDot ==
    (stripOut.form # "none" /\ ValidPath(stripPath)) =>
        IF stripOut.form = "bare" /\ EndsWithDot(stripPath)
        THEN stripOut.route =
                 NewFromRequest(SubSeq(stripPath, 1, Len(stripPath) - 1))
        ELSE stripOut.route = NewFromRequest(stripPath)

C9_Witness ==
    /\ stripOut.form = "bare"
    /\ ValidPath(stripPath)
    /\ EndsWithDot(stripPath) /\ Len(stripPath) > 1
    /\ stripOut.route # NewFromRequest(stripPath)

(***************************************************************************)
(* Further properties of the handler                                       *)
(***************************************************************************)
Has(r, tag) == tag \in Range(r.events)

Pos(r, tag) == CHOOSE i \in 1..Len(r.events) : r.events[i] = tag

\* when b happened, a happened before it
Before(r, a, b) == Has(r, b) => (Has(r, a) /\ Pos(r, a) < Pos(r, b))

IsPrefix(a, b) == Len(a) <= Len(b) /\ SubSeq(b, 1, Len(a)) = a

\* C11: a completed request whose converter exited non-zero leaves none of
\* its temporary files on disk, so the files left by failing requests do not
\* grow with the number of requests (every request gets names of its own).
C11_FailingRequestsLeaveNoFiles ==
    \A u \in Units :
        (Done(req[u]) /\ req[u].runErr = "exit") =>
            Paths(req[u]) \cap DOMAIN files = {}

\* C12: a path that does not parse ends the request at once, with a logged
\* error, no body and no 404 fallback, under every configuration; the
\* configuration gate is evaluated only after a successful route parse.
C12_RouteParseIsFirstGate ==
    \A u \in Units :
        /\ (Done(req[u]) /\ ~req[u].requestRoute.ok) =>
                /\ req[u].events = <<"headers", "log_error">>
                /\ Fallbacks(req[u]) = 0
                /\ NothingPastGate(req[u])
        /\ (Has(req[u], "log_warn") \/ Has(req[u], "fallback404")
                \/ Has(req[u], "lookup")) => req[u].requestRoute.ok

C12_Witness ==
    \E u \in Units :
        /\ ~config.Enabled /\ config.Tool = EmptyText
        /\ Done(req[u]) /\ ~req[u].requestRoute.ok
        /\ LastEvent(req[u]) = "log_error"

OpenHtmlFailed(r) == r.htmlFilePath # NoPath /\ r.htmlFile = "none"
WriteHtmlFailed(r) == Has(r, "write_html_failed")

\* C13: when opening the intermediate file fails, or writing the markup into
\* it fails, the failure is logged and the handler returns without launching
\* the converter and without writing a response.
C13_ArtifactIOFailureAborts ==
    \A u \in Units :
        (OpenHtmlFailed(req[u]) \/ WriteHtmlFailed(req[u])) =>
            /\ Done(req[u])
            /\ LastEvent(req[u]) = "log_error"
            /\ Launches(req[u]) = 0 /\ ~Has(req[u], "launch_failed")
            /\ req[u].body = EmptyText /\ ~req[u].disposition.set

\* C14: after a failed template lookup or render, convertToHtml has logged
\* an error and returned the empty string, and the handler goes on: it
\* allocates and writes an empty intermediate file, runs the converter on it
\* and, when the converter succeeds, streams the converter's output.
C14_FailedRenderGoesOn ==
    \A u \in Units :
        req[u].rendered = "failed" =>
            /\ req[u].html = EmptyText
            /\ Has(req[u], "log_error")
            /\ Done(req[u]) => Allocations(req[u]) >= 1
            /\ req[u].htmlFile # "none" =>
                    ReadFile(files, req[u].htmlFilePath) = EmptyText
            /\ req[u].copied # "none" =>
                    /\ req[u].disposition.set
                    /\ IsPrefix(req[u].body, Convert(EmptyText))

C14_Witness ==
    \E u \in Units :
        /\ req[u].rendered = "failed"
        /\ Launches(req[u]) = 1 /\ req[u].runErr = "nil"
        /\ req[u].copied = "full"
        /\ req[u].body = Convert(EmptyText)
        /\ req[u].disposition.set

\* the handler called WriteString on the intermediate file
WriteCallBefore(r, b) ==
    Has(r, b) =>
        \E i \in 1..Len(r.events) :
            /\ r.events[i] \in {"write_html", "write_html_failed"}
            /\ i < Pos(r, b)

\* C15: the steps of a request occur in a fixed order: the markup is written
\* before the converter is launched, the handler does nothing while the
\* converter runs, the output is opened only after the converter exited
\* without error, and the Content-Disposition header is set before the body
\* is written.
C15_StepsInOrder ==
    \A u \in Units :
        /\ Before(req[u], "open_html", "launch")
        /\ WriteCallBefore(req[u], "launch")
        /\ req[u].proc = "running" =>
                (req[u].pc = "wait" /\ LastEvent(req[u]) = "launch")
        /\ Before(req[u], "launch", "converter_exit")
        /\ Before(req[u], "converter_exit", "open_rtf")
        /\ Has(req[u], "open_rtf") =>
                (req[u].proc = "exited" /\ req[u].runErr = "nil")
        /\ Before(req[u], "open_rtf", "set_disposition")
        /\ Before(req[u], "set_disposition", "write_body")

C15_Witness ==
    \E u \in Units :
        /\ Succeeded(req[u])
        /\ req[u].events =
            <<"headers", "lookup", "alloc_name", "open_html", "write_html",
              "alloc_name", "launch", "converter_exit", "open_rtf",
              "set_disposition", "write_body">>

\* C18: whenever the handler has returned, on any exit path, the handler has
\* closed the request body.
C18_BodyClosedOnReturn ==
    \A u \in Units : Done(req[u]) => req[u].bodyClosed

OutcomeFallback(r) ==
    Fallbacks(r) = 1 /\ r.body = EmptyText /\ r.copied = "none"

OutcomeAbort(r) ==
    /\ Fallbacks(r) = 0 /\ r.body = EmptyText /\ r.copied = "none"
    /\ LastEvent(r) = "log_error"

OutcomeDownload(r) ==
    Has(r, "write_body") /\ r.copied # "none" /\ Fallbacks(r) = 0

Outcomes(r) ==
    {o \in {"fallback", "abort", "download"} :
        \/ o = "fallback" /\ OutcomeFallback(r)
        \/ o = "abort" /\ OutcomeAbort(r)
        \/ o = "download" /\ OutcomeDownload(r)}

\* C19: a completed request ended in exactly one of three outcomes: the 404
\* fallback once and no body from the handler, a silent abort with neither,
\* or a download without the fallback; the fallback is never invoked twice
\* for a request and never for a request that launched a converter.
C19_ExactlyOneOutcome ==
    \A u \in Units :
        /\ Fallbacks(req[u]) <= 1
        /\ Fallbacks(req[u]) >= 1 =>
                /\ Done(req[u])
                /\ Launches(req[u]) = 0 /\ ~Has(req[u], "launch_failed")
        /\ Done(req[u]) => Cardinality(Outcomes(req[u])) = 1

C19_Witness ==
    \E u \in Units, v \in Units :
        /\ Done(req[u]) /\ Outcomes(req[u]) = {"download"}
        /\ Done(req[v]) /\ Outcomes(req[v]) = {"abort"}
        /\ Launches(req[v]) = 1

(***************************************************************************)
(* The handler under fair scheduling: a unit that can take a step of the   *)
(* handler eventually takes it; nothing is assumed of the converter.       *)
(* Stream(u) is enabled exactly in the states where Streaming(u) holds, so *)
(* StreamFair(u) is weak fairness of Stream(u) with that state predicate   *)
(* written in place of ENABLED <<Stream(u)>>_vars.                         *)
(***************************************************************************)
HandlerStep(u) ==
    \/ Gate(u)
    \/ Lookup(u)
    \/ Render(u)
    \/ WriteHtml(u)
    \/ RunStart(u)
    \/ OpenRtf(u)

Streaming(u) == req[u].pc = "stream"

StreamFair(u) == []<>(~Streaming(u)) \/ []<><<Stream(u)>>_vars

SpecFair ==
    /\ Init
    /\ [][Next]_vars
    /\ \A u \in Units : WF_vars(HandlerStep(u)) /\ StreamFair(u)

Waiting(u) == req[u].pc = "wait"

ConvertersExit == \A v \in Units : Waiting(v) ~> ~Waiting(v)

\* C16: a request in flight always reaches its return or the wait for its
\* converter, whatever the other requests' converters do; when every
\* converter eventually exits, every request in flight eventually returns;
\* and a request whose converter is running takes no step, so does not
\* return, until the converter has exited.
C16_CompletionDependsOnConverter ==
    /\ \A u \in Units : InFlight(req[u]) ~> (Done(req[u]) \/ Waiting(u))
    /\ ConvertersExit => \A u \in Units : InFlight(req[u]) ~> Done(req[u])
    /\ [][\A u \in Units :
            (req[u].proc = "running" /\ req'[u] # req[u]) =>
                req'[u].proc = "exited"]_vars

C16_Witness ==
    \E u \in Units, v \in Units :
        /\ Waiting(u) /\ req[u].proc = "running"
        /\ Succeeded(req[v])
        /\ req[v].htmlFilePath.id > req[u].targetFile.id

(***************************************************************************)
(* Properties of the process-execution primitive                           *)
(***************************************************************************)
ExecReturned == exec.pc = "returned"

Drained(s) ==
    /\ exec.copier[s] = "finished"
    /\ exec.forwarded[s] = exec.written[s]

\* C17: when execute has returned after launching a child, the child has
\* terminated and both copy tasks have finished, having forwarded every byte
\* the child wrote to its standard output and standard error.
C17_ReturnMeansOutputForwarded ==
    (ExecReturned /\ exec.launches = 1) =>
        /\ exec.child = "exited"
        /\ \A s \in Streams : Drained(s)

\* C20: for every command text, the empty one included, execute never calls
\* a method of a missing command; when it has returned it has either launched
\* exactly one child and returns the result of waiting for it, or launched
\* none and returns the start error.
C20_NeverOperatesOnMissingCommand ==
    /\ exec.pc # "crashed"
    /\ exec.pc \in {"start", "wait"} => ~exec.command.nil
    /\ exec.launches <= 1
    /\ ExecReturned =>
        \/ exec.launches = 1 /\ exec.result = "exited"
        \/ exec.launches = 0 /\ exec.result = "start_error"

====
